---------------------------- MODULE Spec2Model ----------------------------
(***************************************************************************)
(* A model of the ADGM corporate-agent prototype: the keyword heuristics   *)
(* of adgm_checklist.py, the paragraph extraction, issue aggregation and   *)
(* reviewed-document writer of docx_utils.py, and the top-to-bottom script *)
(* run of app.py.                                                          *)
(*                                                                         *)
(* A text is a sequence of one-character strings, so that lower(), strip(),*)
(* split() and the substring test `in` are computed, not assumed.          *)
(***************************************************************************)
EXTENDS Integers, Sequences, FiniteSets, TLC

VARIABLES
    pc,             \* position of the script run of app.py
    uploaded_files, \* st.file_uploader's result: sequence of [name, content]
    fs,             \* the workspace directory: path -> file content
    docs,           \* app.py `docs`: the saved paths, in upload order
    i,              \* index of the running for-loop over docs / uploaded_files
    doc_summaries,  \* app.py `doc_summaries`
    process,        \* st.selectbox's answer
    present,        \* app.py `present`
    missing,        \* app.py `missing`
    all_issues,     \* app.py `all_issues`
    found,          \* the "Found n issues in <name>" lines written by st.write
    reviewed_files, \* app.py `reviewed_files`
    json_summary,   \* app.py `json_summary`
    arg,            \* argument of a function called on its own
    ret,            \* its return value
    fpc             \* "call" before the call, "ret" after it

appVars == <<pc, uploaded_files, fs, docs, i, doc_summaries, process, present,
             missing, all_issues, found, reviewed_files, json_summary>>
fnVars == <<arg, ret, fpc>>
vars == <<appVars, fnVars>>

(***************************************************************************)
(* Python values                                                           *)
(***************************************************************************)
None == "<None>"

\* dict.get(key, default)
Get(d, key, default) == IF key \in DOMAIN d THEN d[key] ELSE default

\* `x in lst` for a list
InList(x, lst) == \E k \in 1..Len(lst) : lst[k] = x

Range(s) == {s[k] : k \in 1..Len(s)}

\* every sequence over S of length at most n
SeqUpTo(S, n) == UNION {[1..k -> S] : k \in 0..n}

(***************************************************************************)
(* String literals of the sources and of the sample inputs, as texts       *)
(***************************************************************************)
Str ==
    ("articles of association" :> <<"a","r","t","i","c","l","e","s"," ","o","f"," ","a","s","s","o","c","i","a","t","i","o","n">>) @@
    ("article" :> <<"a","r","t","i","c","l","e">>) @@
    ("association" :> <<"a","s","s","o","c","i","a","t","i","o","n">>) @@
    ("memorandum of association" :> <<"m","e","m","o","r","a","n","d","u","m"," ","o","f"," ","a","s","s","o","c","i","a","t","i","o","n">>) @@
    ("memorandum" :> <<"m","e","m","o","r","a","n","d","u","m">>) @@
    ("board resolution" :> <<"b","o","a","r","d"," ","r","e","s","o","l","u","t","i","o","n">>) @@
    ("register of members" :> <<"r","e","g","i","s","t","e","r"," ","o","f"," ","m","e","m","b","e","r","s">>) @@
    ("register of directors" :> <<"r","e","g","i","s","t","e","r"," ","o","f"," ","d","i","r","e","c","t","o","r","s">>) @@
    ("ubo" :> <<"u","b","o">>) @@
    ("ultimate beneficial owner" :> <<"u","l","t","i","m","a","t","e"," ","b","e","n","e","f","i","c","i","a","l"," ","o","w","n","e","r">>) @@
    ("application for incorporation" :> <<"a","p","p","l","i","c","a","t","i","o","n"," ","f","o","r"," ","i","n","c","o","r","p","o","r","a","t","i","o","n">>) @@
    ("incorporation application" :> <<"i","n","c","o","r","p","o","r","a","t","i","o","n"," ","a","p","p","l","i","c","a","t","i","o","n">>) @@
    ("agreement" :> <<"a","g","r","e","e","m","e","n","t">>) @@
    ("u.a.e federal courts" :> <<"u",".","a",".","e"," ","f","e","d","e","r","a","l"," ","c","o","u","r","t","s">>) @@
    ("federal courts of the uae" :> <<"f","e","d","e","r","a","l"," ","c","o","u","r","t","s"," ","o","f"," ","t","h","e"," ","u","a","e">>) @@
    ("adgm" :> <<"a","d","g","m">>) @@
    ("jurisdiction" :> <<"j","u","r","i","s","d","i","c","t","i","o","n">>) @@
    ("governing law" :> <<"g","o","v","e","r","n","i","n","g"," ","l","a","w">>) @@
    ("signature" :> <<"s","i","g","n","a","t","u","r","e">>) @@
    ("signed" :> <<"s","i","g","n","e","d">>) @@
    ("authorized signatory" :> <<"a","u","t","h","o","r","i","z","e","d"," ","s","i","g","n","a","t","o","r","y">>) @@
    ("may" :> <<"m","a","y">>) @@
    ("best efforts" :> <<"b","e","s","t"," ","e","f","f","o","r","t","s">>) @@
    ("endeavour to" :> <<"e","n","d","e","a","v","o","u","r"," ","t","o">>) @@
    ("possibly" :> <<"p","o","s","s","i","b","l","y">>) @@
    ("subject to" :> <<"s","u","b","j","e","c","t"," ","t","o">>) @@
    ("to the extent possible" :> <<"t","o"," ","t","h","e"," ","e","x","t","e","n","t"," ","p","o","s","s","i","b","l","e">>) @@
    ("\n" :> <<"\n">>) @@
    ("\t" :> <<"\t">>) @@
    (" " :> <<" ">>) @@
    ("w " :> <<"w"," ">>) @@
    ("Articles of Association" :> <<"A","r","t","i","c","l","e","s"," ","o","f"," ","A","s","s","o","c","i","a","t","i","o","n">>) @@
    ("Memorandum" :> <<"M","e","m","o","r","a","n","d","u","m">>) @@
    ("BOARD RESOLUTION" :> <<"B","O","A","R","D"," ","R","E","S","O","L","U","T","I","O","N">>) @@
    ("Register of Directors" :> <<"R","e","g","i","s","t","e","r"," ","o","f"," ","D","i","r","e","c","t","o","r","s">>) @@
    ("turbo" :> <<"t","u","r","b","o">>) @@
    ("Incorporation Application" :> <<"I","n","c","o","r","p","o","r","a","t","i","o","n"," ","A","p","p","l","i","c","a","t","i","o","n">>) @@
    ("Agreement" :> <<"A","g","r","e","e","m","e","n","t">>) @@
    ("hello" :> <<"h","e","l","l","o">>) @@
    ("The U.A.E Federal Courts" :> <<"T","h","e"," ","U",".","A",".","E"," ","F","e","d","e","r","a","l"," ","C","o","u","r","t","s">>) @@
    ("federal courts of the UAE" :> <<"f","e","d","e","r","a","l"," ","c","o","u","r","t","s"," ","o","f"," ","t","h","e"," ","U","A","E">>) @@
    ("Governing Law" :> <<"G","o","v","e","r","n","i","n","g"," ","L","a","w">>) @@
    ("ADGM" :> <<"A","D","G","M">>) @@
    ("dismayed" :> <<"d","i","s","m","a","y","e","d">>) @@
    ("shall" :> <<"s","h","a","l","l">>) @@
    ("governed by" :> <<"g","o","v","e","r","n","e","d"," ","b","y">>) @@
    ("Lorem ipsum" :> <<"L","o","r","e","m"," ","i","p","s","u","m">>) @@
    ("Signature: ____" :> <<"S","i","g","n","a","t","u","r","e",":"," ","_","_","_","_">>) @@
    ("SIGNED by the parties" :> <<"S","I","G","N","E","D"," ","b","y"," ","t","h","e"," ","p","a","r","t","i","e","s">>) @@
    ("Authorized Signatory" :> <<"A","u","t","h","o","r","i","z","e","d"," ","S","i","g","n","a","t","o","r","y">>) @@
    ("Authorised signatory" :> <<"A","u","t","h","o","r","i","s","e","d"," ","s","i","g","n","a","t","o","r","y">>) @@
    ("This agreement is governed by the federal courts of the UAE." :> <<"T","h","i","s"," ","a","g","r","e","e","m","e","n","t"," ","i","s"," ","g","o","v","e","r","n","e","d"," ","b","y"," ","t","h","e"," ","f","e","d","e","r","a","l"," ","c","o","u","r","t","s"," ","o","f"," ","t","h","e"," ","U","A","E",".">>) @@
    ("The parties shall endeavour to perform in good faith." :> <<"T","h","e"," ","p","a","r","t","i","e","s"," ","s","h","a","l","l"," ","e","n","d","e","a","v","o","u","r"," ","t","o"," ","p","e","r","f","o","r","m"," ","i","n"," ","g","o","o","d"," ","f","a","i","t","h",".">>) @@
    ("End of document." :> <<"E","n","d"," ","o","f"," ","d","o","c","u","m","e","n","t",".">>) @@
    ("  " :> <<" "," ">>) @@
    ("The U.A.E Federal Courts may have jurisdiction." :> <<"T","h","e"," ","U",".","A",".","E"," ","F","e","d","e","r","a","l"," ","C","o","u","r","t","s"," ","m","a","y"," ","h","a","v","e"," ","j","u","r","i","s","d","i","c","t","i","o","n",".">>) @@
    ("Signed by the director" :> <<"S","i","g","n","e","d"," ","b","y"," ","t","h","e"," ","d","i","r","e","c","t","o","r">>) @@
    ("Subject to ADGM jurisdiction" :> <<"S","u","b","j","e","c","t"," ","t","o"," ","A","D","G","M"," ","j","u","r","i","s","d","i","c","t","i","o","n">>) @@
    ("Hello " :> <<"H","e","l","l","o"," ">>) @@
    ("World" :> <<"W","o","r","l","d">>) @@
    ("Line1\nLine2" :> <<"L","i","n","e","1","\n","L","i","n","e","2">>)

\* str.lower() on the ASCII letters
LowerTable ==
    [A |-> "a", B |-> "b", C |-> "c", D |-> "d", E |-> "e", F |-> "f", G |-> "g",
     H |-> "h", I |-> "i", J |-> "j", K |-> "k", L |-> "l", M |-> "m", N |-> "n",
     O |-> "o", P |-> "p", Q |-> "q", R |-> "r", S |-> "s", T |-> "t", U |-> "u",
     V |-> "v", W |-> "w", X |-> "x", Y |-> "y", Z |-> "z"]

Lower(s) == [k \in 1..Len(s) |-> IF s[k] \in DOMAIN LowerTable THEN LowerTable[s[k]] ELSE s[k]]

\* needle in hay  (substring test)
Contains(hay, needle) ==
    \E k \in 0..(Len(hay) - Len(needle)) : \A j \in 1..Len(needle) : hay[k + j] = needle[j]

\* the whitespace str.split() and str.strip() cut at, among the characters used here
IsSpace(c) == c \in {" ", "\t", "\n", "\r"}

\* str.strip()
Strip(s) ==
    LET keep == {k \in 1..Len(s) : ~IsSpace(s[k])}
        first == CHOOSE k \in keep : \A m \in keep : k <= m
        last == CHOOSE k \in keep : \A m \in keep : m <= k
    IN  IF keep = {} THEN <<>> ELSE SubSeq(s, first, last)

\* len(str.split()): the number of maximal runs of non-whitespace
WordCount(s) ==
    Cardinality({k \in 1..Len(s) : ~IsSpace(s[k]) /\ (k = 1 \/ IsSpace(s[k - 1]))})

RECURSIVE Join(_, _)
\* sep.join(parts)
Join(sep, parts) ==
    IF Len(parts) = 0 THEN <<>>
    ELSE IF Len(parts) = 1 THEN parts[1]
    ELSE parts[1] \o sep \o Join(sep, Tail(parts))

\* the text of the strings `names`, joined by `sep`
TextOf(names, sep) == Join(Str[sep], [k \in 1..Len(names) |-> Str[names[k]]])

\* s * n
Repeat(s, n) == [k \in 1..(n * Len(s)) |-> s[((k - 1) % Len(s)) + 1]]

\* lst[-n:]
LastN(lst, n) == IF Len(lst) <= n THEN lst ELSE SubSeq(lst, Len(lst) - n + 1, Len(lst))

\* str(k) for k >= 0, as its decimal digits
Digit == <<"0", "1", "2", "3", "4", "5", "6", "7", "8", "9">>
RECURSIVE IntToStr(_)
IntToStr(k) == IF k < 10 THEN <<Digit[k + 1]>> ELSE IntToStr(k \div 10) \o <<Digit[(k % 10) + 1]>>

(***************************************************************************)
(* adgm_checklist.py                                                       *)
(***************************************************************************)
COMPANY_INCORPORATION_CHECKLIST ==
    << "Articles of Association",
       "Memorandum of Association",
       "Board Resolution Template",
       "Incorporation Application Form",
       "Register of Members and Directors",
       "UBO Declaration Form" >>

ADGM_CITATIONS ==
    [companies_regulation_jurisdiction |-> "ADGM Companies Regulations 2020, Art. 6",
     ubo_regulation |-> "ADGM UBO Rules (example placeholder)"]

\* detect_doc_type_by_text with the memorandum test moved above the articles test
detect_doc_type_by_text_reordered(text) ==
    LET txt == Lower(text)
        has(lit) == Contains(txt, Str[lit])
    IN  IF has("memorandum of association") \/ has("memorandum")
            THEN "Memorandum of Association"
        ELSE IF has("articles of association") \/ (has("article") /\ has("association"))
            THEN "Articles of Association"
        ELSE IF has("board resolution")
            THEN "Board Resolution Template"
        ELSE IF has("register of members") \/ has("register of directors")
            THEN "Register of Members and Directors"
        ELSE IF has("ubo") \/ has("ultimate beneficial owner")
            THEN "UBO Declaration Form"
        ELSE IF has("application for incorporation") \/ has("incorporation application")
            THEN "Incorporation Application Form"
        ELSE IF has("agreement")
            THEN "Commercial Agreement"
        ELSE "Unknown"

detect_doc_type_by_text(text) ==
    LET txt == Lower(text)
        has(lit) == Contains(txt, Str[lit])
    IN  IF has("articles of association") \/ (has("article") /\ has("association"))
            THEN "Articles of Association"
        ELSE IF has("memorandum of association") \/ has("memorandum")
            THEN "Memorandum of Association"
        ELSE IF has("board resolution")
            THEN "Board Resolution Template"
        ELSE IF has("register of members") \/ has("register of directors")
            THEN "Register of Members and Directors"
        ELSE IF has("ubo") \/ has("ultimate beneficial owner")
            THEN "UBO Declaration Form"
        ELSE IF has("application for incorporation") \/ has("incorporation application")
            THEN "Incorporation Application Form"
        ELSE IF has("agreement")
            THEN "Commercial Agreement"
        ELSE "Unknown"

\* check_jurisdiction_paragraph citing a key the citation table does not hold
check_jurisdiction_paragraph_badkey(paragraph_text) ==
    LET lower == Lower(paragraph_text)
        has(lit) == Contains(lower, Str[lit])
        federal ==
            IF has("u.a.e federal courts") \/ has("federal courts of the uae")
            THEN << [issue |-> <<"References UAE Federal Courts instead of ADGM jurisdiction.">>,
                     severity |-> "High",
                     citation_key |-> "companies_regulation",
                     suggestion |-> "Replace jurisdiction clause to reference ADGM Courts/Jurisdiction."] >>
            ELSE <<>>
        no_adgm ==
            IF (~has("adgm")) /\ (has("jurisdiction") \/ has("governing law"))
            THEN << [issue |-> <<"Jurisdiction clause does not explicitly reference ADGM.">>,
                     severity |-> "Medium",
                     citation_key |-> "companies_regulation",
                     suggestion |-> "Update jurisdiction/governing law clause to specify 'ADGM'."] >>
            ELSE <<>>
    IN  federal \o no_adgm

\* check_jurisdiction_paragraph with the second test turned into an elif
check_jurisdiction_paragraph_elif(paragraph_text) ==
    LET lower == Lower(paragraph_text)
        has(lit) == Contains(lower, Str[lit])
    IN  IF has("u.a.e federal courts") \/ has("federal courts of the uae")
        THEN << [issue |-> <<"References UAE Federal Courts instead of ADGM jurisdiction.">>,
                 severity |-> "High",
                 citation_key |-> "companies_regulation_jurisdiction",
                 suggestion |-> "Replace jurisdiction clause to reference ADGM Courts/Jurisdiction."] >>
        ELSE IF (~has("adgm")) /\ (has("jurisdiction") \/ has("governing law"))
        THEN << [issue |-> <<"Jurisdiction clause does not explicitly reference ADGM.">>,
                 severity |-> "Medium",
                 citation_key |-> "companies_regulation_jurisdiction",
                 suggestion |-> "Update jurisdiction/governing law clause to specify 'ADGM'."] >>
        ELSE <<>>

check_jurisdiction_paragraph(paragraph_text) ==
    LET lower == Lower(paragraph_text)
        has(lit) == Contains(lower, Str[lit])
        federal ==
            IF has("u.a.e federal courts") \/ has("federal courts of the uae")
            THEN << [issue |-> <<"References UAE Federal Courts instead of ADGM jurisdiction.">>,
                     severity |-> "High",
                     citation_key |-> "companies_regulation_jurisdiction",
                     suggestion |-> "Replace jurisdiction clause to reference ADGM Courts/Jurisdiction."] >>
            ELSE <<>>
        no_adgm ==
            IF (~has("adgm")) /\ (has("jurisdiction") \/ has("governing law"))
            THEN << [issue |-> <<"Jurisdiction clause does not explicitly reference ADGM.">>,
                     severity |-> "Medium",
                     citation_key |-> "companies_regulation_jurisdiction",
                     suggestion |-> "Update jurisdiction/governing law clause to specify 'ADGM'."] >>
            ELSE <<>>
    IN  federal \o no_adgm

\* detect_missing_signature reading the whole document, not its last 10 paragraphs
detect_missing_signature_whole(paragraphs) ==
    LET joined == Lower(Join(Str["\n"], paragraphs))
        has(lit) == Contains(joined, Str[lit])
    IN  IF (~has("signature")) /\ (~has("signed")) /\ (~has("authorized signatory"))
        THEN << [issue |-> <<"No signature block or signatory section detected near end of document.">>,
                 severity |-> "High",
                 suggestion |-> "Add signatory block with name, designation and date."] >>
        ELSE <<>>

detect_missing_signature(paragraphs) ==
    LET joined == Lower(Join(Str["\n"], LastN(paragraphs, 10)))
        has(lit) == Contains(joined, Str[lit])
    IN  IF (~has("signature")) /\ (~has("signed")) /\ (~has("authorized signatory"))
        THEN << [issue |-> <<"No signature block or signatory section detected near end of document.">>,
                 severity |-> "High",
                 suggestion |-> "Add signatory block with name, designation and date."] >>
        ELSE <<>>

ambig_markers ==
    <<"may", "best efforts", "endeavour to", "possibly", "subject to", "to the extent possible">>

RECURSIVE AmbigLoopInclusive(_, _)
\* the loop with the word limit tested as <= 200
AmbigLoopInclusive(lower, k) ==
    IF k > Len(ambig_markers) THEN <<>>
    ELSE IF Contains(lower, Str[ambig_markers[k]]) /\ WordCount(lower) <= 200
        THEN << [issue |-> <<"Ambiguous/non-binding language found ('", ambig_markers[k], "')">>,
                 severity |-> "Low",
                 suggestion |-> "Consider replacing ambiguous phrasing with clear, binding obligations."] >>
    ELSE AmbigLoopInclusive(lower, k + 1)

RECURSIVE AmbigLoop(_, _)
\* the for-loop of detect_ambiguous_language from marker number k on
AmbigLoop(lower, k) ==
    IF k > Len(ambig_markers) THEN <<>>
    ELSE IF Contains(lower, Str[ambig_markers[k]]) /\ WordCount(lower) < 200
        THEN << [issue |-> <<"Ambiguous/non-binding language found ('", ambig_markers[k], "')">>,
                 severity |-> "Low",
                 suggestion |-> "Consider replacing ambiguous phrasing with clear, binding obligations."] >>
    ELSE AmbigLoop(lower, k + 1)

detect_ambiguous_language(paragraph_text) == AmbigLoop(Lower(paragraph_text), 1)

(***************************************************************************)
(* docx_utils.py                                                           *)
(*                                                                         *)
(* A .docx file is [ok, paragraphs]: ok is FALSE for a file that           *)
(* Document(path) cannot open.  A paragraph is [runs, style], a run is     *)
(* [text, bold, brk]; Paragraph.text is the concatenation of its runs.     *)
(***************************************************************************)
Run(text) == [text |-> text, bold |-> FALSE, brk |-> "none"]

\* Document.add_paragraph(text): one run holding the text, none for ''
add_paragraph(text) ==
    [runs |-> IF text = <<>> THEN <<>> ELSE <<Run(text)>>, style |-> "Normal"]

RECURSIVE ConcatAll(_)
ConcatAll(seqs) == IF seqs = <<>> THEN <<>> ELSE Head(seqs) \o ConcatAll(Tail(seqs))

\* Paragraph.text
ParaText(p) == ConcatAll([k \in 1..Len(p.runs) |-> p.runs[k].text])

NonEmptyText(t) == t # <<>>

\* [p.text.strip() for p in doc.paragraphs if p.text.strip() != ""]
extract_docx_paragraphs(file) ==
    SelectSeq([k \in 1..Len(file.paragraphs) |-> Strip(ParaText(file.paragraphs[k]))],
              NonEmptyText)

\* the section written with the 0-based idx
ParagraphSectionZeroBased(k) == <<"Paragraph ">> \o IntToStr(k - 1)

\* f"Paragraph {idx+1}" for the 0-based idx = k - 1
ParagraphSection(k) == <<"Paragraph ">> \o IntToStr(k)

\* the records summarize_issues appends for paragraph number k (1-based)
ParagraphRecords(p, k, filename) ==
    LET j_issues == check_jurisdiction_paragraph(p)
        a_issues == detect_ambiguous_language(p)
        jrec(ji) == [document |-> filename,
                     section |-> ParagraphSection(k),
                     issue |-> ji["issue"],
                     severity |-> Get(ji, "severity", "Medium"),
                     suggestion |-> Get(ji, "suggestion", None),
                     citation_key |-> Get(ji, "citation_key", None)]
        arec(ai) == [document |-> filename,
                     section |-> ParagraphSection(k),
                     issue |-> ai["issue"],
                     severity |-> Get(ai, "severity", "Low"),
                     suggestion |-> Get(ai, "suggestion", None)]
    IN  IF Len(Strip(p)) = 0 THEN <<>>
        ELSE [n \in 1..Len(j_issues) |-> jrec(j_issues[n])]
             \o [n \in 1..Len(a_issues) |-> arec(a_issues[n])]

RECURSIVE ParagraphLoop(_, _, _)
\* the for-loop of summarize_issues over paragraphs k, k+1, ...
ParagraphLoop(paragraphs, k, filename) ==
    IF k > Len(paragraphs) THEN <<>>
    ELSE ParagraphRecords(paragraphs[k], k, filename) \o ParagraphLoop(paragraphs, k + 1, filename)

\* the records summarize_issues appends for the missing-signature heuristic
SignatureRecords(paragraphs, filename) ==
    LET ms == detect_missing_signature(paragraphs)
    IN  [n \in 1..Len(ms) |->
            [document |-> filename,
             section |-> <<"End of Document">>,
             issue |-> ms[n]["issue"],
             severity |-> Get(ms[n], "severity", "High"),
             suggestion |-> Get(ms[n], "suggestion", None)]]

\* summarize_issues with the signature heuristic run before the paragraph loop
summarize_issues_signature_first(paragraphs, filename) ==
    SignatureRecords(paragraphs, filename) \o ParagraphLoop(paragraphs, 1, filename)

summarize_issues(paragraphs, filename) ==
    ParagraphLoop(paragraphs, 1, filename) \o SignatureRecords(paragraphs, filename)

\* Python truthiness of a str-or-None
Truthy(x) == x # None /\ x # ""

\* the paragraphs create_reviewed_docx appends for issue number idx
IssueBlock(idx, iss) ==
    LET head == [runs |-> << [text |-> <<"[">> \o IntToStr(idx) \o <<"] Document: ", Get(iss, "document", None),
                                       " | Section: ">> \o Get(iss, "section", <<None>>),
                              bold |-> TRUE, brk |-> "none"] >>,
                 style |-> "Normal"]
        body == add_paragraph(<<"Issue: ">> \o Get(iss, "issue", <<None>>))
        sugg == IF Truthy(Get(iss, "suggestion", None))
                THEN << [runs |-> <<Run(<<"Suggestion: ", Get(iss, "suggestion", None)>>)>>,
                         style |-> "Intense Quote"] >>
                ELSE <<>>
        cite == IF Truthy(Get(iss, "citation_key", None))
                THEN <<add_paragraph(<<"Citation: ", Get(iss, "citation_key", None)>>)>>
                ELSE <<>>
    IN  <<head, body>> \o sugg \o cite

RECURSIVE IssueBlocks(_, _)
\* the for-loop of create_reviewed_docx over issues idx, idx+1, ...
IssueBlocks(issues, idx) ==
    IF idx > Len(issues) THEN <<>>
    ELSE IssueBlock(idx, issues[idx]) \o IssueBlocks(issues, idx + 1)

\* Document.add_page_break(): a paragraph holding one run with a page break;
\* break_text is what Run.text gives for that run ("" or "\n", by library version)
add_page_break(break_text) ==
    [runs |-> << [text |-> break_text, bold |-> FALSE, brk |-> "page"] >>, style |-> "Normal"]

BreakTexts == {<<>>, <<"\n">>}

\* Document.add_heading(text, level=1)
add_heading(text) == [runs |-> <<Run(text)>>, style |-> "Heading 1"]

\* create_reviewed_docx copying the stripped, non-empty paragraph texts only
create_reviewed_docx_stripped(src, issues, break_text) ==
    [ok |-> TRUE,
     paragraphs |->
        [k \in 1..Len(extract_docx_paragraphs(src)) |-> add_paragraph(extract_docx_paragraphs(src)[k])]
        \o <<add_page_break(break_text)>>
        \o <<add_heading(<<"Automated Review Comments / Issues">>)>>
        \o IssueBlocks(issues, 1)]

\* the document create_reviewed_docx saves, for a source it could open
create_reviewed_docx(src, issues, break_text) ==
    [ok |-> TRUE,
     paragraphs |->
        [k \in 1..Len(src.paragraphs) |-> add_paragraph(ParaText(src.paragraphs[k]))]
        \o <<add_page_break(break_text)>>
        \o <<add_heading(<<"Automated Review Comments / Issues">>)>>
        \o IssueBlocks(issues, 1)]

(***************************************************************************)
(* app.py: checklist verification                                          *)
(***************************************************************************)
\* [s["detected_type"] for s in doc_summaries]
UploadedTypes(summaries) == [k \in 1..Len(summaries) |-> summaries[k].detected_type]

\* the comprehension taken over the uploaded types instead of the required list
PresentByUpload(required, uploaded_types) ==
    LET wanted(t) == InList(t, required)
    IN  SelectSeq(uploaded_types, wanted)

\* [r for r in required if r in uploaded_types]
Present(required, uploaded_types) ==
    LET there(r) == InList(r, uploaded_types)
    IN  SelectSeq(required, there)

\* [r for r in required if r not in uploaded_types]
Missing(required, uploaded_types) ==
    LET absent(r) == ~InList(r, uploaded_types)
    IN  SelectSeq(required, absent)

(***************************************************************************)
(* Calls of one function on its own: the argument is drawn from a bounded  *)
(* set of inputs, the action applies the function.                         *)
(***************************************************************************)
AppIdle ==
    /\ pc = "idle"
    /\ uploaded_files = <<>>
    /\ fs = <<>>
    /\ docs = <<>>
    /\ i = 0
    /\ doc_summaries = <<>>
    /\ process = None
    /\ present = None
    /\ missing = None
    /\ all_issues = <<>>
    /\ found = <<>>
    /\ reviewed_files = <<>>
    /\ json_summary = None

MaxFrags == 2

ClassifyFrags ==
    {"Articles of Association", "article", "association", "Memorandum", "BOARD RESOLUTION",
     "register of members", "Register of Directors", "turbo", "ultimate beneficial owner",
     "application for incorporation", "Incorporation Application", "Agreement", "hello"}

\* the texts app.py hands to the classifier: paragraphs joined by "\n"
ClassifyInputs == {TextOf(names, "\n") : names \in SeqUpTo(ClassifyFrags, MaxFrags)}

InitClassify == AppIdle /\ arg \in ClassifyInputs /\ ret = None /\ fpc = "call"

Classify ==
    /\ fpc = "call"
    /\ ret' = detect_doc_type_by_text(arg)
    /\ fpc' = "ret"
    /\ UNCHANGED <<arg, appVars>>

SpecClassify == InitClassify /\ [][Classify]_vars


\* the lower-cased text contains the literal
Mentions(text, lit) == Contains(Lower(text), Str[lit])

DocumentLabels ==
    {"Articles of Association", "Memorandum of Association", "Board Resolution Template",
     "Incorporation Application Form", "Register of Members and Directors",
     "UBO Declaration Form", "Commercial Agreement", "Unknown"}

\* the six specific keyword predicates, in the classifier's priority order
KeywordHit(text) ==
    << Mentions(text, "articles of association")
            \/ (Mentions(text, "article") /\ Mentions(text, "association")),
       Mentions(text, "memorandum of association") \/ Mentions(text, "memorandum"),
       Mentions(text, "board resolution"),
       Mentions(text, "register of members") \/ Mentions(text, "register of directors"),
       Mentions(text, "ubo") \/ Mentions(text, "ultimate beneficial owner"),
       Mentions(text, "application for incorporation")
            \/ Mentions(text, "incorporation application") >>

KeywordLabel ==
    << "Articles of Association", "Memorandum of Association", "Board Resolution Template",
       "Register of Members and Directors", "UBO Declaration Form",
       "Incorporation Application Form" >>

(***************************************************************************)
(* C2: for every text, the empty one included, the classifier returns one  *)
(* of the 8 labels; it returns the label of keyword predicate k exactly    *)
(* when k is the first predicate that matches, Commercial Agreement        *)
(* exactly when no predicate matches and the lower-cased text contains     *)
(* "agreement", and Unknown exactly when nothing matches.                  *)
(***************************************************************************)
C2_FirstMatchTotal ==
    fpc = "ret" =>
        LET hit == KeywordHit(arg)
            none == \A k \in 1..6 : ~hit[k]
        IN  /\ ret \in DocumentLabels
            /\ \A k \in 1..6 :
                    (ret = KeywordLabel[k]) <=> (hit[k] /\ \A j \in 1..(k - 1) : ~hit[j])
            /\ (ret = "Commercial Agreement") <=> (none /\ Mentions(arg, "agreement"))
            /\ (ret = "Unknown") <=> (none /\ ~Mentions(arg, "agreement"))

\* two predicates match and the earlier one wins
C2_Witness ==
    /\ fpc = "ret"
    /\ KeywordHit(arg)[1] /\ KeywordHit(arg)[2]
    /\ ret = "Articles of Association"


MaxParaFrags == 2

ParaFrags ==
    {"The U.A.E Federal Courts", "federal courts of the UAE", "jurisdiction", "Governing Law",
     "ADGM", "may", "dismayed", "best efforts", "endeavour to", "possibly", "subject to",
     "to the extent possible", "shall", "governed by"}

\* numbers of filler words put before one marker, around the 200-word limit
LongFill == {198, 199, 200}

ParaInputs ==
    {TextOf(names, " ") : names \in SeqUpTo(ParaFrags, MaxParaFrags)}
    \cup {Repeat(Str["w "], n) \o Str["may"] : n \in LongFill}

InitPara == AppIdle /\ arg \in ParaInputs /\ ret = None /\ fpc = "call"

CheckJurisdiction ==
    /\ fpc = "call"
    /\ ret' = [fn |-> "check_jurisdiction_paragraph", value |-> check_jurisdiction_paragraph(arg)]
    /\ fpc' = "ret"
    /\ UNCHANGED <<arg, appVars>>

DetectAmbiguity ==
    /\ fpc = "call"
    /\ ret' = [fn |-> "detect_ambiguous_language", value |-> detect_ambiguous_language(arg)]
    /\ fpc' = "ret"
    /\ UNCHANGED <<arg, appVars>>

NextPara == CheckJurisdiction \/ DetectAmbiguity

SpecPara == InitPara /\ [][NextPara]_vars

FederalPhrase(text) ==
    Mentions(text, "u.a.e federal courts") \/ Mentions(text, "federal courts of the uae")

UnanchoredClause(text) ==
    (Mentions(text, "jurisdiction") \/ Mentions(text, "governing law")) /\ ~Mentions(text, "adgm")

(***************************************************************************)
(* C3: for every paragraph the jurisdiction rule emits the High issue      *)
(* exactly when the lower-cased paragraph contains one of the two          *)
(* federal-courts phrasings and the Medium issue exactly when it mentions  *)
(* "jurisdiction" or "governing law" and not "adgm"; so it yields 0, 1 or  *)
(* 2 issues, and a paragraph that triggers both sub-checks yields exactly  *)
(* two, High first and Medium second, with the same citation key.          *)
(***************************************************************************)
C3_IndependentSubChecks ==
    (fpc = "ret" /\ ret.fn = "check_jurisdiction_paragraph") =>
        LET v == ret.value
            high == {k \in 1..Len(v) : v[k].severity = "High"}
            medium == {k \in 1..Len(v) : v[k].severity = "Medium"}
        IN  /\ Len(v) = Cardinality(high) + Cardinality(medium)
            /\ Cardinality(high) = (IF FederalPhrase(arg) THEN 1 ELSE 0)
            /\ Cardinality(medium) = (IF UnanchoredClause(arg) THEN 1 ELSE 0)
            /\ \A k \in 1..Len(v) : v[k].citation_key = "companies_regulation_jurisdiction"
            /\ (FederalPhrase(arg) /\ UnanchoredClause(arg)) =>
                    (Len(v) = 2 /\ v[1].severity = "High" /\ v[2].severity = "Medium")

\* a paragraph that triggers both sub-checks
C3_Witness ==
    /\ fpc = "ret" /\ ret.fn = "check_jurisdiction_paragraph"
    /\ FederalPhrase(arg) /\ UnanchoredClause(arg)
    /\ Len(ret.value) = 2

CanonicalMarkers ==
    <<"may", "best efforts", "endeavour to", "possibly", "subject to", "to the extent possible">>

\* the canonical markers that occur in the lower-cased paragraph, by number
Occurring(text) == {k \in 1..Len(CanonicalMarkers) : Mentions(text, CanonicalMarkers[k])}

(***************************************************************************)
(* C4: for every paragraph the ambiguity rule emits at most one issue: one *)
(* Low issue when the paragraph has fewer than 200 words and contains a    *)
(* marker, none otherwise; the marker named in the description is the      *)
(* first one of the canonical list that occurs in the paragraph.           *)
(***************************************************************************)
C4_FirstMarkerOnce ==
    (fpc = "ret" /\ ret.fn = "detect_ambiguous_language") =>
        LET v == ret.value
            occ == Occurring(arg)
            fires == WordCount(arg) < 200 /\ occ # {}
            first == CHOOSE k \in occ : \A m \in occ : k <= m
        IN  /\ Len(v) <= 1
            /\ (Len(v) = 1) <=> fires
            /\ fires =>
                    /\ v[1].severity = "Low"
                    /\ v[1].issue = <<"Ambiguous/non-binding language found ('",
                                      CanonicalMarkers[first], "')">>

\* two markers occur, and the one named is not the one that comes first in the text
C4_Witness ==
    /\ fpc = "ret" /\ ret.fn = "detect_ambiguous_language"
    /\ arg = TextOf(<<"subject to", "may">>, " ")
    /\ Len(ret.value) = 1
    /\ ret.value[1].issue[2] = "may"


MaxSigParas == 11

SigMarkerParas ==
    {"Signature: ____", "SIGNED by the parties", "Authorized Signatory", "Authorised signatory"}

\* n filler paragraphs, paragraph number at replaced by the text `name`
FilledDoc(n, at, name) ==
    [k \in 1..n |-> IF k = at THEN Str[name] ELSE Str["Lorem ipsum"]]

ExampleParas ==
    << Str["This agreement is governed by the federal courts of the UAE."],
       Str["The parties shall endeavour to perform in good faith."],
       Str["End of document."] >>

\* extracted paragraph lists: fillers with at most one paragraph that looks like a
\* signature line, and the worked example
SummarizeInputs ==
    {FilledDoc(n, 0, "Lorem ipsum") : n \in 0..MaxSigParas}
    \cup {FilledDoc(n, at, name) : n \in 1..MaxSigParas, at \in 1..MaxSigParas, name \in SigMarkerParas}
    \cup {ExampleParas}

InitSummarize == AppIdle /\ arg \in SummarizeInputs /\ ret = None /\ fpc = "call"

Summarize ==
    /\ fpc = "call"
    /\ ret' = summarize_issues(arg, "docx")
    /\ fpc' = "ret"
    /\ UNCHANGED <<arg, appVars>>

SpecSummarize == InitSummarize /\ [][Summarize]_vars

SignatureMarkers == {"signature", "signed", "authorized signatory"}

\* some paragraph among the last 10 contains a signature marker, case-insensitively
MarkerInTail(paragraphs) ==
    \E k \in 1..Len(paragraphs) :
        /\ k > Len(paragraphs) - 10
        /\ \E m \in SignatureMarkers : Mentions(paragraphs[k], m)

EndIssues(issues) == {k \in 1..Len(issues) : issues[k].section = <<"End of Document">>}

(***************************************************************************)
(* C5: for every document, those with fewer than 10 paragraphs and with    *)
(* none included, the missing-signature rule fires at most once, and       *)
(* exactly when none of "signature", "signed", "authorized signatory"      *)
(* occurs, case-insensitively, in one of the last 10 paragraphs; a marker  *)
(* before the last 10 does not suppress it.  The issue is High with        *)
(* section "End of Document".                                              *)
(***************************************************************************)
C5_SignatureOnceFromTail ==
    fpc = "ret" =>
        LET fired == EndIssues(ret)
        IN  /\ Cardinality(fired) <= 1
            /\ (Cardinality(fired) = 1) <=> ~MarkerInTail(arg)
            /\ \A k \in fired : ret[k].severity = "High"
            /\ \A k \in 1..Len(ret) :
                    ret[k].issue[1] = "No signature block or signatory section detected near end of document."
                        => k \in fired

\* a marker in paragraph 1 of an 11-paragraph document does not suppress the issue
C5_Witness ==
    /\ fpc = "ret"
    /\ Len(arg) = 11
    /\ Mentions(arg[1], "signature")
    /\ Cardinality(EndIssues(ret)) = 1

Severities(issues) == [k \in 1..Len(issues) |-> issues[k].severity]
Sections(issues) == [k \in 1..Len(issues) |-> issues[k].section]
Descriptions(issues) == [k \in 1..Len(issues) |-> issues[k].issue]

(***************************************************************************)
(* C9 as claimed: the worked example yields 4 issues: High and Medium for  *)
(* paragraph 1, Low ('endeavour to') for paragraph 2, High at "End of      *)
(* Document".                                                              *)
(***************************************************************************)
C9_ExampleFourIssues ==
    (fpc = "ret" /\ arg = ExampleParas) =>
        /\ Len(ret) = 4
        /\ Severities(ret) = <<"High", "Medium", "Low", "High">>
        /\ Sections(ret) = << <<"Paragraph ", "1">>, <<"Paragraph ", "1">>,
                              <<"Paragraph ", "2">>, <<"End of Document">> >>

(***************************************************************************)
(* C9, amended: the worked example yields exactly 3 issues in this order:  *)
(* High (federal-courts jurisdiction) for paragraph 1, Low (ambiguity,     *)
(* marker 'endeavour to') for paragraph 2, High (missing signature) at     *)
(* "End of Document".  Paragraph 1 mentions neither "jurisdiction" nor     *)
(* "governing law", so the Medium sub-check does not fire.                 *)
(***************************************************************************)
C9_ExampleThreeIssues ==
    (fpc = "ret" /\ arg = ExampleParas) =>
        /\ Len(ret) = 3
        /\ Severities(ret) = <<"High", "Low", "High">>
        /\ Sections(ret) = << <<"Paragraph ", "1">>, <<"Paragraph ", "2">>, <<"End of Document">> >>
        /\ Descriptions(ret) =
                << <<"References UAE Federal Courts instead of ADGM jurisdiction.">>,
                   <<"Ambiguous/non-binding language found ('", "endeavour to", "')">>,
                   <<"No signature block or signatory section detected near end of document.">> >>

\* summarize_issues has returned for the worked example
C9_Witness ==
    /\ fpc = "ret"
    /\ arg = ExampleParas
    /\ Len(ret) > 0
    /\ ~UnanchoredClause(arg[1])


MaxDetected == 3

\* what detect_doc_type_by_text can return
DetectableLabels ==
    {"Articles of Association", "Memorandum of Association", "Board Resolution Template",
     "Incorporation Application Form", "Register of Members and Directors",
     "UBO Declaration Form", "Commercial Agreement", "Unknown"}

\* the detected types of 1..MaxDetected uploaded documents
ChecklistInputs == SeqUpTo(DetectableLabels, MaxDetected) \ {<<>>}

InitChecklist == AppIdle /\ arg \in ChecklistInputs /\ ret = None /\ fpc = "call"

VerifyChecklist ==
    /\ fpc = "call"
    /\ ret' = [required |-> COMPANY_INCORPORATION_CHECKLIST,
               present |-> Present(COMPANY_INCORPORATION_CHECKLIST, arg),
               missing |-> Missing(COMPANY_INCORPORATION_CHECKLIST, arg)]
    /\ fpc' = "ret"
    /\ UNCHANGED <<arg, appVars>>

SpecChecklist == InitChecklist /\ [][VerifyChecklist]_vars

\* sub lists its elements once each, in the order they have in full
KeepsOrderOf(sub, full) ==
    \A k \in 1..Len(sub) :
        \E a \in 1..Len(full) :
            /\ full[a] = sub[k]
            /\ \A b \in 1..Len(full) : full[b] = sub[k] => b = a
            /\ k < Len(sub) => \E b \in (a + 1)..Len(full) : full[b] = sub[k + 1]

(***************************************************************************)
(* C1: for every collection of detected labels (duplicates and labels      *)
(* outside the required list allowed), present and missing are disjoint,   *)
(* their union is the required list as a set, a required label is present  *)
(* exactly when it occurs among the detected labels, and both keep the     *)
(* required list's order.                                                  *)
(***************************************************************************)
C1_ChecklistPartition ==
    fpc = "ret" =>
        /\ Range(ret.present) \cap Range(ret.missing) = {}
        /\ Range(ret.present) \cup Range(ret.missing) = Range(ret.required)
        /\ \A r \in Range(ret.required) : (r \in Range(ret.present)) <=> (r \in Range(arg))
        /\ KeepsOrderOf(ret.present, ret.required)
        /\ KeepsOrderOf(ret.missing, ret.required)

\* a label detected twice, and two labels detected against the list's order
C1_Witness ==
    /\ fpc = "ret"
    /\ arg = <<"Memorandum of Association", "Memorandum of Association", "Articles of Association">>
    /\ ret.present = <<"Articles of Association", "Memorandum of Association">>
    /\ Len(ret.missing) = 4


MaxSrcParas == 3

\* a paragraph of one run
Para(name) == [runs |-> <<Run(Str[name])>>, style |-> "Normal"]

\* a file Document(path) cannot open
Corrupt == [ok |-> FALSE, paragraphs |-> <<>>]

SourceParas ==
    { [runs |-> <<>>, style |-> "Normal"],
      Para("  "),
      [runs |-> << [text |-> Str["Hello "], bold |-> TRUE, brk |-> "none"], Run(Str["World"]) >>,
       style |-> "Title"],
      Para("Line1\nLine2") }

SourceDocs == {[ok |-> TRUE, paragraphs |-> ps] : ps \in SeqUpTo(SourceParas, MaxSrcParas)}

AnnotateInputs ==
    {[src |-> d, issues |-> iss] :
        d \in SourceDocs \cup {Corrupt},
        iss \in {<<>>, summarize_issues(ExampleParas, "a.docx")}}

InitAnnotate == AppIdle /\ arg \in AnnotateInputs /\ ret = None /\ fpc = "call"

Annotate ==
    /\ fpc = "call"
    /\ \E break_text \in BreakTexts :
            ret' = IF arg.src.ok
                   THEN [raised |-> FALSE,
                         saved |-> create_reviewed_docx(arg.src, arg.issues, break_text)]
                   ELSE [raised |-> TRUE, saved |-> None]
    /\ fpc' = "ret"
    /\ UNCHANGED <<arg, appVars>>

SpecAnnotate == InitAnnotate /\ [][Annotate]_vars

HeadingText == <<"Automated Review Comments / Issues">>

\* the first n paragraphs of out carry the texts of src's paragraphs, in order
CopiesTexts(src, out) ==
    /\ Len(out.paragraphs) >= Len(src.paragraphs)
    /\ \A k \in 1..Len(src.paragraphs) :
            ParaText(out.paragraphs[k]) = ParaText(src.paragraphs[k])

(***************************************************************************)
(* C8 as claimed: with an empty issue list the output's paragraphs are the *)
(* original paragraph texts followed only by the heading, so the output    *)
(* has the original paragraph count plus one.                              *)
(***************************************************************************)
C8_OnlyHeadingAdded ==
    (fpc = "ret" /\ arg.src.ok /\ arg.issues = <<>>) =>
        /\ ~ret.raised
        /\ CopiesTexts(arg.src, ret.saved)
        /\ Len(ret.saved.paragraphs) = Len(arg.src.paragraphs) + 1
        /\ ParaText(ret.saved.paragraphs[Len(arg.src.paragraphs) + 1]) = HeadingText

(***************************************************************************)
(* C8, amended: with an empty issue list create_reviewed_docx does not     *)
(* fail, and the output's paragraphs are the original paragraph texts      *)
(* verbatim in order, then one paragraph holding only the page break that  *)
(* add_page_break() appends, then the heading; the output has the          *)
(* original paragraph count plus two, and no issue block.                  *)
(***************************************************************************)
C8_BreakAndHeadingAdded ==
    (fpc = "ret" /\ arg.src.ok /\ arg.issues = <<>>) =>
        LET n == Len(arg.src.paragraphs)
            out == ret.saved.paragraphs
        IN  /\ ~ret.raised
            /\ CopiesTexts(arg.src, ret.saved)
            /\ Len(out) = n + 2
            /\ Len(out[n + 1].runs) = 1 /\ out[n + 1].runs[1].brk = "page"
            /\ ParaText(out[n + 2]) = HeadingText /\ out[n + 2].style = "Heading 1"

\* a source with an empty, a blank and a two-run paragraph, annotated with no issues
C8_Witness ==
    /\ fpc = "ret"
    /\ arg.issues = <<>>
    /\ arg.src.ok
    /\ Len(arg.src.paragraphs) = 3
    /\ ParaText(arg.src.paragraphs[1]) = <<>>
    /\ ParaText(arg.src.paragraphs[2]) = Str["  "]
    /\ Len(arg.src.paragraphs[3].runs) = 2
    /\ ~ret.raised


(***************************************************************************)
(* app.py: one run of the script, top to bottom, on one batch of uploads   *)
(***************************************************************************)
MaxDocs == 2

FileNames == {"a.docx", "b.docx"}

DocExample ==
    [ok |-> TRUE,
     paragraphs |-> << Para("This agreement is governed by the federal courts of the UAE."),
                       Para("The parties shall endeavour to perform in good faith."),
                       Para("End of document.") >>]

DocEmpty == [ok |-> TRUE, paragraphs |-> <<>>]

DocBlank ==
    [ok |-> TRUE,
     paragraphs |-> << Para("  "),
                       Para("Signed by the director"),
                       [runs |-> <<>>, style |-> "Normal"],
                       Para("The U.A.E Federal Courts may have jurisdiction.") >>]

DocArticles ==
    [ok |-> TRUE,
     paragraphs |-> << Para("Articles of Association"),
                       Para("Subject to ADGM jurisdiction"),
                       Para("Authorized Signatory") >>]

FileContents == {DocExample, DocEmpty, DocBlank, DocArticles, Corrupt}

\* what st.file_uploader can return: 0..MaxDocs files, names may repeat
Batches ==
    SeqUpTo({[name |-> n, content |-> c] : n \in FileNames, c \in FileContents}, MaxDocs)

FnIdle == arg = None /\ ret = None /\ fpc = "idle"

Init ==
    /\ pc = "upload"
    /\ uploaded_files \in Batches
    /\ fs = <<>>
    /\ docs = <<>>
    /\ i = 0
    /\ doc_summaries = <<>>
    /\ process = None
    /\ present = None
    /\ missing = None
    /\ all_issues = <<>>
    /\ found = <<>>
    /\ reviewed_files = <<>>
    /\ json_summary = None
    /\ FnIdle

\* open(path, "w") ... write: the file at path now holds content
WriteFile(files, path, content) == (path :> content) @@ files

\* Path.name of a path in the workspace
PathName(path) == path[Len(path)]

\* the for-loop over docs goes to its next element, or the script goes on to `after`
LoopStep(after) ==
    IF i < Len(docs)
    THEN i' = i + 1 /\ pc' = pc
    ELSE i' = 1 /\ pc' = after

\* app.py 31-33: nothing uploaded, st.stop()
NoUpload ==
    /\ pc = "upload"
    /\ uploaded_files = <<>>
    /\ pc' = "stopped"
    /\ UNCHANGED <<uploaded_files, fs, docs, i, doc_summaries, process, present, missing,
                   all_issues, found, reviewed_files, json_summary, fnVars>>

\* app.py 35-39: a fresh temporary workspace
MakeWorkspace ==
    /\ pc = "upload"
    /\ uploaded_files # <<>>
    /\ pc' = "save"
    /\ i' = 1
    /\ fs' = <<>>
    /\ docs' = <<>>
    /\ UNCHANGED <<uploaded_files, doc_summaries, process, present, missing,
                   all_issues, found, reviewed_files, json_summary, fnVars>>

\* app.py 40-45: one pass of the loop that saves the uploads to disk
SaveFile ==
    /\ pc = "save"
    /\ LET f == uploaded_files[i]
           saved_path == <<f.name>>
       IN  /\ fs' = WriteFile(fs, saved_path, f.content)
           /\ docs' = Append(docs, saved_path)
    /\ IF i < Len(uploaded_files)
       THEN i' = i + 1 /\ pc' = pc
       ELSE i' = 1 /\ pc' = "classify"
    /\ UNCHANGED <<uploaded_files, doc_summaries, process, present, missing,
                   all_issues, found, reviewed_files, json_summary, fnVars>>

\* app.py 52-63: one pass of the classification loop; Document(path) raising is
\* not caught, so the script run ends there
ClassifyDoc ==
    /\ pc = "classify"
    /\ LET p == docs[i]
       IN  IF ~fs[p].ok
           THEN /\ pc' = "crashed"
                /\ UNCHANGED <<i, doc_summaries>>
           ELSE LET text_paragraphs == extract_docx_paragraphs(fs[p])
                    detected == detect_doc_type_by_text(Join(Str["\n"], text_paragraphs))
                IN  /\ doc_summaries' =
                            Append(doc_summaries,
                                   [filename |-> PathName(p),
                                    path |-> p,
                                    detected_type |-> detected,
                                    paragraph_count |-> Len(text_paragraphs)])
                    /\ LoopStep("checklist")
    /\ UNCHANGED <<uploaded_files, fs, docs, process, present, missing,
                   all_issues, found, reviewed_files, json_summary, fnVars>>

\* app.py 66-85: the process is chosen, the checklist is verified for
\* "Company Incorporation"
ChecklistStep ==
    /\ pc = "checklist"
    /\ \E chosen \in {"Company Incorporation", "Other"} :
            /\ process' = chosen
            /\ IF chosen = "Company Incorporation"
               THEN LET required == COMPANY_INCORPORATION_CHECKLIST
                        uploaded_types == UploadedTypes(doc_summaries)
                    IN  /\ present' = Present(required, uploaded_types)
                        /\ missing' = Missing(required, uploaded_types)
               ELSE UNCHANGED <<present, missing>>
    /\ pc' = "analyse"
    /\ i' = 1
    /\ UNCHANGED <<uploaded_files, fs, docs, doc_summaries,
                   all_issues, found, reviewed_files, json_summary, fnVars>>

\* app.py 93-98: one pass of the loop that gathers the issues of all documents
AnalyseDoc ==
    /\ pc = "analyse"
    /\ LET p == docs[i]
       IN  IF ~fs[p].ok
           THEN /\ pc' = "crashed"
                /\ UNCHANGED <<i, all_issues, found>>
           ELSE LET paras == extract_docx_paragraphs(fs[p])
                    issues == summarize_issues(paras, PathName(p))
                IN  /\ all_issues' = all_issues \o issues
                    /\ found' = Append(found, [name |-> PathName(p), count |-> Len(issues)])
                    /\ LoopStep("button")
    /\ UNCHANGED <<uploaded_files, fs, docs, doc_summaries, process, present, missing,
                   reviewed_files, json_summary, fnVars>>

\* app.py 114, 147-148: the button is not pressed, the script ends
NotClicked ==
    /\ pc = "button"
    /\ pc' = "done"
    /\ UNCHANGED <<uploaded_files, fs, docs, i, doc_summaries, process, present, missing,
                   all_issues, found, reviewed_files, json_summary, fnVars>>

\* app.py 114-123: the button is pressed, the report record is built
GenerateClicked ==
    /\ pc = "button"
    /\ reviewed_files' = <<>>
    /\ json_summary' =
            [process |-> IF process = "Company Incorporation" THEN "Company Incorporation" ELSE "Unknown",
             documents_uploaded |-> Len(docs),
             required_documents |-> IF process = "Company Incorporation"
                                    THEN Len(COMPANY_INCORPORATION_CHECKLIST) ELSE None,
             missing_documents |-> IF process = "Company Incorporation" THEN missing ELSE <<>>,
             issues_found |-> all_issues]
    /\ pc' = "review"
    /\ i' = 1
    /\ UNCHANGED <<uploaded_files, fs, docs, doc_summaries, process, present, missing,
                   all_issues, found, fnVars>>

\* app.py 125-129: one pass of the loop that writes the reviewed copies; neither
\* Document(original_path) nor out.save(reviewed_path) raising is caught
ReviewDoc ==
    /\ pc = "review"
    /\ LET p == docs[i]
           reviewed_path == <<"reviewed_", PathName(p)>>
       IN  \E break_text \in BreakTexts, save_ok \in BOOLEAN :
               IF fs[p].ok /\ save_ok
               THEN /\ fs' = WriteFile(fs, reviewed_path,
                                       create_reviewed_docx(fs[p], all_issues, break_text))
                    /\ reviewed_files' = Append(reviewed_files, reviewed_path)
                    /\ LoopStep("json")
               ELSE /\ pc' = "crashed"
                    /\ UNCHANGED <<fs, reviewed_files, i>>
    /\ UNCHANGED <<uploaded_files, docs, doc_summaries, process, present, missing,
                   all_issues, found, json_summary, fnVars>>

\* app.py 131-145: the JSON summary is written, the downloads are offered
WriteJson ==
    /\ pc = "json"
    /\ fs' = WriteFile(fs, <<"osint_summary_", "timestamp", ".json">>, [ok |-> FALSE, json |-> json_summary])
    /\ pc' = "done"
    /\ UNCHANGED <<uploaded_files, docs, i, doc_summaries, process, present, missing,
                   all_issues, found, reviewed_files, json_summary, fnVars>>

Next ==
    \/ NoUpload
    \/ MakeWorkspace
    \/ SaveFile
    \/ ClassifyDoc
    \/ ChecklistStep
    \/ AnalyseDoc
    \/ NotClicked
    \/ GenerateClicked
    \/ ReviewDoc
    \/ WriteJson

Spec == Init /\ [][Next]_vars


DigitValue(c) == CHOOSE d \in 0..9 : Digit[d + 1] = c

RECURSIVE ParseNat(_)
\* the number a sequence of decimal digits writes
ParseNat(ds) ==
    IF ds = <<>> THEN 0
    ELSE 10 * ParseNat(SubSeq(ds, 1, Len(ds) - 1)) + DigitValue(ds[Len(ds)])

AtEnd(issue) == issue.section = <<"End of Document">>

AtParagraph(issue) ==
    /\ Len(issue.section) >= 2
    /\ issue.section[1] = "Paragraph "
    /\ \A k \in 2..Len(issue.section) : \E d \in 1..10 : Digit[d] = issue.section[k]

\* the paragraph ordinal a "Paragraph k" section names
Ordinal(issue) == ParseNat(Tail(issue.section))

\* the jurisdiction rule's issues are the ones that carry a citation key
FromJurisdictionRule(issue) == "citation_key" \in DOMAIN issue

\* a before b in one document's group
InDocumentOrder(a, b) ==
    \/ AtEnd(b) /\ AtParagraph(a)
    \/ /\ AtParagraph(a) /\ AtParagraph(b)
       /\ \/ Ordinal(a) < Ordinal(b)
          \/ Ordinal(a) = Ordinal(b) /\ (FromJurisdictionRule(b) => FromJurisdictionRule(a))

RECURSIVE CountBefore(_)
\* the number of issues written for the first k documents
CountBefore(k) == IF k = 0 THEN 0 ELSE CountBefore(k - 1) + found[k].count

\* the issues of the k-th analysed document, by the counts the script reported
Group(k) == SubSeq(all_issues, CountBefore(k - 1) + 1, CountBefore(k))

(***************************************************************************)
(* C6: the issue list is the concatenation of one group per analysed       *)
(* document, in upload order; within a group the issues are in ascending   *)
(* paragraph ordinal, within a paragraph the jurisdiction issues come      *)
(* before the ambiguity issue, and the "End of Document" issue, if any, is *)
(* the last of the group.                                                  *)
(***************************************************************************)
C6_GroupedByDocumentInOrder ==
    /\ Len(found) <= Len(docs)
    /\ CountBefore(Len(found)) = Len(all_issues)
    /\ \A k \in 1..Len(found) :
            /\ found[k].name = PathName(docs[k])
            /\ \A a \in 1..Len(Group(k)) :
                    /\ Group(k)[a].document = PathName(docs[k])
                    /\ AtEnd(Group(k)[a]) \/ AtParagraph(Group(k)[a])
                    /\ \A b \in (a + 1)..Len(Group(k)) : InDocumentOrder(Group(k)[a], Group(k)[b])

\* two documents analysed, the first with issues in two paragraphs and at the end,
\* the second with three issues in one paragraph
C6_Witness ==
    /\ pc = "button"
    /\ Len(found) = 2
    /\ found[1].name # found[2].name
    /\ found[1].count = 3
    /\ AtEnd(all_issues[3])
    /\ found[2].count = 3
    /\ Ordinal(all_issues[4]) = Ordinal(all_issues[6])

(***************************************************************************)
(* C7: when reading or annotating one document of the batch fails, only    *)
(* that document is given up: the run still ends normally, every document  *)
(* that can be read is classified and analysed, and a document that cannot *)
(* be read is recorded with a failure sentinel as its detected type.       *)
(* Stated for the batches that hold a document that can be read.           *)
(***************************************************************************)
C7_FailureIsolated ==
    (pc \in {"done", "crashed"} /\ \E k \in 1..Len(docs) : fs[docs[k]].ok) =>
        /\ pc = "done"
        /\ \A k \in 1..Len(docs) :
                \E s \in 1..Len(doc_summaries) :
                    /\ doc_summaries[s].filename = PathName(docs[k])
                    /\ fs[docs[k]].ok <=> (doc_summaries[s].detected_type \in DetectableLabels)
        /\ \A k \in 1..Len(docs) :
                fs[docs[k]].ok => \E f \in 1..Len(found) : found[f].name = PathName(docs[k])

(***************************************************************************)
(* C10: every issue of the aggregated list carries a non-empty             *)
(* description, a severity among High, Medium, Low, a section that is      *)
(* "Paragraph k" with 1 <= k <= the paragraph count of its document or     *)
(* "End of Document", and a citation key that, if present, is a key of     *)
(* ADGM_CITATIONS.                                                         *)
(***************************************************************************)
C10_IssuesWellFormed ==
    \A a \in 1..Len(all_issues) :
        LET x == all_issues[a]
        IN  /\ \E part \in Range(x.issue) : part # ""
            /\ x.severity \in {"High", "Medium", "Low"}
            /\ \/ AtEnd(x)
               \/ /\ AtParagraph(x)
                  /\ \E s \in 1..Len(doc_summaries) :
                        /\ doc_summaries[s].filename = x.document
                        /\ 1 <= Ordinal(x)
                        /\ Ordinal(x) <= doc_summaries[s].paragraph_count
            /\ ("citation_key" \in DOMAIN x /\ x.citation_key # None)
                    => x.citation_key \in DOMAIN ADGM_CITATIONS

\* an issue with a citation key in the last paragraph of a document whose file has
\* blank paragraphs, and an end-of-document issue of another document
C10_Witness ==
    /\ pc = "done"
    /\ \E a, b \in 1..Len(all_issues) :
            /\ FromJurisdictionRule(all_issues[a])
            /\ AtParagraph(all_issues[a]) /\ Ordinal(all_issues[a]) = 2
            /\ \E s \in 1..Len(doc_summaries) :
                    /\ doc_summaries[s].filename = all_issues[a].document
                    /\ doc_summaries[s].paragraph_count = 2
            /\ AtEnd(all_issues[b])

=============================================================================
